---- MODULE Spec2Model ----
(***************************************************************************)
(* Model of Flash-Programmer/IceBoard.cpp: the SPI NOR flash programming   *)
(* protocol (WriteSPI / ReadSPI, WaitForFlashReady, WriteEnableFlash,      *)
(* EraseFlash, EraseSector, PageProgramFlash, SectorProgramFlash,          *)
(* ReadSectorFlash, ProgramFlash, ValidateFlash) run against an in-memory  *)
(* flash chip and a transport that can fail, be busy and corrupt reads.    *)
(*                                                                         *)
(* The geometry of IceBoard.h is scaled down: a data byte has two bits     *)
(* (0..3, erased value 3), a page has FLASH_PAGE_SIZE bytes and a sector   *)
(* FLASH_SECTOR_SIZE bytes.  Address bytes keep their real width.          *)
(***************************************************************************)
EXTENDS Integers, Sequences, FiniteSets, TLC

(***************************************************************************)
(* Geometry and limits (IceBoard.h), scaled.                               *)
(***************************************************************************)
FLASH_PAGE_SIZE == 2
FLASH_SECTOR_SIZE == 4
MAX_READ_SIZE == 3
MAX_WAIT_TIME_MS == 2
MAX_SECTOR_PROGRAM_ATTEMPTS == 3

\* Number of sectors of the modelled chip; images hold at most this many sectors.
NumSectors == 2

FlashCapacity == NumSectors * FLASH_SECTOR_SIZE

\* Width of size_t, scaled so that the arithmetic stays inside TLC's integers.
SizeTMod == 2 ^ 24

Byte == 0 .. 3
ErasedByte == 3

\* Opcodes (IceBoard.h)
ReadStatusRegisterCmd == "ReadStatusRegisterCmd"
WriteEnableCmd == "WriteEnableCmd"
PageProgramCmd == "PageProgramCmd"
SectorEraseCmd == "SectorEraseCmd"
ChipEraseCmd == "ChipEraseCmd"
ReadCmd == "ReadCmd"

\* Status codes
FT4222_OK == "FT4222_OK"
FT4222_DEVICE_NOT_OPENED == "FT4222_DEVICE_NOT_OPENED"
FT4222_INORRECT_TRANSFER_SIZE == "FT4222_INORRECT_TRANSFER_SIZE"
FT4222_TIME_OUT_ERROR == "FT4222_TIME_OUT_ERROR"
FT4222_CORRUPTED_UPLOAD == "FT4222_CORRUPTED_UPLOAD"

(***************************************************************************)
(* Pure helpers.                                                           *)
(***************************************************************************)
Min(a, b) == IF a < b THEN a ELSE b

\* C integer division: truncates toward zero.
CDiv(a, b) == IF a >= 0 THEN a \div b ELSE -((-a) \div b)

\* Bitwise AND of two data bytes (a NOR flash can only clear bits).
BitAnd(a, b) == ((a % 2) * (b % 2)) + 2 * (((a \div 2) % 2) * ((b \div 2) % 2))

\* std::vector(first, last) over offsets [from, to) of buf (0-based, in range).
Slice(buf, from, to) == [k \in 1 .. (to - from) |-> buf[from + k]]

\* Mutation: least significant byte first.
IntToByteVecLittleEndian(x) ==
    << x % 256, (x % 65536) \div 256, (x % 16777216) \div 65536 >>

\* byte[0] = (x & 0x00FF0000) >> 16; byte[1] = (x & 0x0000FF00) >> 8;
\* byte[2] = x & 0x000000FF
IntToByteVec(x) ==
    << (x % 16777216) \div 65536, (x % 65536) \div 256, x % 256 >>

\* What the chip makes of three address bytes.
DecodeAddress(b) == b[1] * 65536 + b[2] * 256 + b[3]

\* The status WriteSPI / ReadSPI report for a driver outcome.
TransferStatus(out) ==
    IF out = "fail" THEN FT4222_DEVICE_NOT_OPENED
    ELSE IF out = "short" THEN FT4222_INORRECT_TRANSFER_SIZE
    ELSE FT4222_OK

DriverOutcomes == {"ok", "fail", "short"}

\* Test images: every length up to the chip's capacity, two byte patterns whose
\* sectors differ from each other.
ImageByte(s, j) == (((j + s) * (j + s + 1)) \div 2) % 4
Seeds == 0 .. 1
Image(s, len) == [j \in 1 .. len |-> ImageByte(s, j)]
Images == { Image(s, len) : s \in Seeds, len \in 1 .. FlashCapacity }

\* What an out-of-range read of n bytes of host memory can yield.
Garbage(n) == { [k \in 1 .. n |-> g] : g \in Byte }

VARIABLES
    op,            \* the operation the caller invoked
    fileBuffer,    \* its buffer argument
    pc,            \* call stack of code positions, innermost first
    status,        \* the status most recently returned or assigned
    flash,         \* chip: contents, address -> byte
    wel,           \* chip: write-enable latch
    busyLeft,      \* chip: status polls during which it stays busy
    cs,            \* chip: the command whose transaction is still open
    i, attempts, errorCount, bufferPointer,   \* ProgramFlash locals
    readBuffer,                               \* ProgramFlash read-back buffer
    sectorIndex, sectorBuffer, pi,            \* SectorProgramFlash
    eraseIndex,                               \* EraseSector
    pageIndex, writeBuffer,                   \* PageProgramFlash
    vi, pointer, vReadBuffer,                 \* ValidateFlash
    wi, sleeps,                               \* WaitForFlashReady
    lastCmd, prevCmd,   \* bus: opcode of the last command frame and of the one before
    awaiting,           \* bus: a program/erase command not yet followed by a ready status
    pollCount,          \* bus: status reads since the last other command
    readySeen,          \* bus: one of those status reads had the busy bit clear
    earlyCmd,           \* bus: a command other than a status read was sent while awaiting
    addrSector,         \* bus: sector of the last addressed frame, -1 if none
    sectorsSeen,        \* bus: NumSectors-bounded set of sectors addressed so far
    xfers,              \* any transport call made yet
    firstError,         \* first transport/timeout error reported, "none" if none
    xferAfterErr,       \* a transport call was made after firstError
    progAttempts,       \* SectorProgramFlash calls for the current sector
    mismatches,         \* read-backs of the current sector that differed from the image
    cleanReads,         \* read-backs of the current sector that matched the image
    verified,           \* sectors whose read-back matched and that ProgramFlash left behind
    corrupted,          \* the transport altered some read data
    stuck,              \* the chip stayed busy for a whole poll budget
    erasedAtStart,      \* ProgramFlash started on a fully erased chip
    readLog,            \* bus: the Read commands of the running ValidateFlash, as
                        \*      [addr, n, data] per completed receive
    erases,             \* bus: SectorErase commands sent for the current sector
    unbalanced,         \* bus: a transfer did not fit the open/closed transaction
    flash0,             \* the flash contents when the behaviour started
    calls,              \* ValidateFlash calls made so far
    firstResult,        \* what the first ValidateFlash call returned
    ppLog,              \* PageProgramFlash calls of a direct SectorProgramFlash, as
                        \*      [page, data]
    addrIn, addrOut     \* an address and the bytes IntToByteVec made of it

chipVars == << flash, wel, busyLeft, cs >>
busCore == << lastCmd, prevCmd, awaiting, pollCount, readySeen, earlyCmd, addrSector, sectorsSeen, xfers,
              firstError, xferAfterErr, corrupted, stuck, readLog, unbalanced >>
busVars == << busCore, erases >>
pfVars == << i, attempts, errorCount, bufferPointer, readBuffer >>
spVars == << sectorIndex, sectorBuffer, pi, eraseIndex >>
ppVars == << pageIndex, writeBuffer >>
vfVars == << vi, pointer, vReadBuffer >>
wVars == << wi, sleeps >>
callVars == << flash0, calls, firstResult >>
addrVars == << addrIn, addrOut >>
sessVars == << callVars, ppLog, addrVars >>
histVars == << progAttempts, mismatches, cleanReads, verified, erasedAtStart, sessVars >>
argVars == << op, fileBuffer >>

vars == << argVars, pc, status, chipVars, busVars, pfVars, spVars, ppVars, vfVars,
           wVars, histVars >>


(***************************************************************************)
(* The flash chip.                                                         *)
(***************************************************************************)
NoCommand == [op |-> "none", addr |-> 0]

ErasedFlash == [a \in 0 .. FlashCapacity - 1 |-> ErasedByte]
ZeroedFlash == [a \in 0 .. FlashCapacity - 1 |-> 0]
InitFlashes == {ErasedFlash, ZeroedFlash}

SectorOf(addr) == (addr % FlashCapacity) \div FLASH_SECTOR_SIZE

\* Page program: bytes are ANDed into the page, wrapping inside the page.
ProgramBytes(f, addr, data) ==
    LET a0 == addr % FlashCapacity
        base == a0 - (a0 % FLASH_PAGE_SIZE)
        target(k) == base + (((a0 % FLASH_PAGE_SIZE) + k - 1) % FLASH_PAGE_SIZE)
        last(a) == CHOOSE k \in 1 .. Len(data) :
                      /\ target(k) = a
                      /\ \A m \in 1 .. Len(data) : target(m) = a => m <= k
    IN [a \in DOMAIN f |->
          IF \E k \in 1 .. Len(data) : target(k) = a
          THEN BitAnd(f[a], data[last(a)]) ELSE f[a]]

EraseSectorAt(f, addr) ==
    [a \in DOMAIN f |-> IF SectorOf(a) = SectorOf(addr) THEN ErasedByte ELSE f[a]]

\* Status register: bit 0 busy, bit 1 write-enable latch.
StatusByte == (IF busyLeft > 0 THEN 1 ELSE 0) + (IF wel THEN 2 ELSE 0)

\* Bytes the chip puts on the bus for a receive of n bytes.
ChipData(n) ==
    IF cs.op = ReadStatusRegisterCmd THEN [k \in 1 .. n |-> StatusByte]
    ELSE IF cs.op = ReadCmd
         THEN [k \in 1 .. n |-> flash[(cs.addr + k - 1) % FlashCapacity]]
         ELSE [k \in 1 .. n |-> ErasedByte]

\* The transport alters byte c of the data (c = 0: none).
Corrupt(data, c) == [k \in DOMAIN data |-> IF k = c THEN (data[k] + 1) % 4 ELSE data[k]]

Accepting == wel /\ busyLeft = 0

\* Bookkeeping common to every transport call.
Transfer(out) ==
    /\ xfers' = TRUE
    /\ xferAfterErr' = (xferAfterErr \/ firstError # "none")
    /\ firstError' = IF firstError = "none" /\ out # "ok"
                     THEN TransferStatus(out) ELSE firstError

\* FT4222_SPIMaster_SingleWrite of the bytes in frame; busy is how long the chip
\* stays busy if the frame starts a program or erase.
Transmit(frame, end, out, busy) ==
    /\ Transfer(out)
    /\ corrupted' = corrupted
    /\ readLog' = readLog
    /\ IF out # "ok"
       THEN UNCHANGED << chipVars, lastCmd, prevCmd, awaiting, pollCount, readySeen,
                         earlyCmd, addrSector, sectorsSeen, stuck, erases, unbalanced >>
       ELSE IF cs.op = "none"
       THEN LET opc == frame[1]
                addressed == opc \in {PageProgramCmd, SectorEraseCmd, ReadCmd}
                                /\ Len(frame) >= 4
                addr == IF addressed THEN DecodeAddress(SubSeq(frame, 2, 4)) ELSE 0
                erase == end /\ opc \in {SectorEraseCmd, ChipEraseCmd}
            IN /\ prevCmd' = lastCmd
               /\ lastCmd' = opc
               /\ pollCount' = IF opc = ReadStatusRegisterCmd THEN pollCount ELSE 0
               /\ readySeen' = (opc = ReadStatusRegisterCmd /\ readySeen)
               /\ earlyCmd' = (earlyCmd \/ (awaiting /\ opc # ReadStatusRegisterCmd))
               /\ addrSector' = IF addressed THEN SectorOf(addr) ELSE addrSector
               /\ sectorsSeen' = IF addressed THEN sectorsSeen \cup {SectorOf(addr)}
                                 ELSE sectorsSeen
               /\ awaiting' = (awaiting \/ erase)
               /\ cs' = IF end THEN NoCommand ELSE [op |-> opc, addr |-> addr]
               /\ wel' = IF end /\ opc = WriteEnableCmd THEN (wel \/ busyLeft = 0)
                         ELSE IF erase /\ Accepting THEN FALSE ELSE wel
               /\ flash' = IF erase /\ Accepting
                           THEN IF opc = ChipEraseCmd THEN ErasedFlash
                                ELSE EraseSectorAt(flash, addr)
                           ELSE flash
               /\ busyLeft' = IF erase /\ Accepting THEN busy ELSE busyLeft
               /\ stuck' = (stuck \/ (erase /\ Accepting /\ busy >= MAX_WAIT_TIME_MS))
               /\ erases' = IF end /\ opc = SectorEraseCmd THEN erases + 1 ELSE erases
               /\ unbalanced' = unbalanced
       ELSE LET program == cs.op = PageProgramCmd /\ Accepting
            IN /\ UNCHANGED << lastCmd, prevCmd, pollCount, readySeen, earlyCmd,
                               addrSector, sectorsSeen >>
               /\ awaiting' = (awaiting \/ cs.op = PageProgramCmd)
               /\ cs' = IF end THEN NoCommand ELSE cs
               /\ wel' = IF program THEN FALSE ELSE wel
               /\ flash' = IF program THEN ProgramBytes(flash, cs.addr, frame) ELSE flash
               /\ busyLeft' = IF program THEN busy ELSE busyLeft
               /\ stuck' = (stuck \/ (program /\ busy >= MAX_WAIT_TIME_MS))
               /\ erases' = erases
               /\ unbalanced' = (unbalanced \/ cs.op # PageProgramCmd \/ ~end)

\* FT4222_SPIMaster_SingleRead; c is the byte the transport alters, if any.
Receive(n, end, out, c) ==
    /\ Transfer(out)
    /\ UNCHANGED << flash, wel, lastCmd, prevCmd, earlyCmd, addrSector, sectorsSeen,
                    stuck, erases >>
    /\ corrupted' = (corrupted \/ (out = "ok" /\ c > 0))
    /\ IF out # "ok"
       THEN UNCHANGED << busyLeft, cs, awaiting, pollCount, readySeen, readLog,
                         unbalanced >>
       ELSE /\ cs' = IF end THEN NoCommand ELSE cs
            /\ unbalanced' = (unbalanced \/ cs.op \notin {ReadStatusRegisterCmd, ReadCmd}
                                         \/ ~end)
            /\ readLog' = IF op = "ValidateFlash" /\ cs.op = ReadCmd
                          THEN Append(readLog, [addr |-> cs.addr, n |-> n,
                                                data |-> Corrupt(ChipData(n), c)])
                          ELSE readLog
            /\ IF cs.op = ReadStatusRegisterCmd
               THEN /\ busyLeft' = IF busyLeft > 0 THEN busyLeft - 1 ELSE 0
                    /\ pollCount' = pollCount + 1
                    /\ awaiting' = (awaiting /\ busyLeft > 0)
                    /\ readySeen' = (readySeen \/ busyLeft = 0)
               ELSE UNCHANGED << busyLeft, awaiting, pollCount, readySeen >>

\* The bytes a transmit of n bytes from buf puts on the bus: reading past the
\* end of buf yields whatever lies behind it.
WireBytes(buf, n) ==
    IF Len(buf) >= n THEN { SubSeq(buf, 1, n) }
    ELSE { buf \o g : g \in Garbage(n - Len(buf)) }

(***************************************************************************)
(* Control.                                                                *)
(***************************************************************************)
Top == Head(pc)
Return(st) == pc' = Tail(pc) /\ status' = st
Goto(label) == pc' = << label >> \o Tail(pc)
\* Call a function whose first position is entry, continuing at cont.
Call(entry, cont) == pc' = << entry, cont >> \o Tail(pc)

\* The state after construction: the chip holds one of the contents F, with its latch
\* in W and B status polls left busy; the caller has loaded buf and holds an address
\* out of A.
InitWith(F, W, B, buf, A) ==
    /\ op = "none" /\ fileBuffer = buf
    /\ pc = << "idle" >>
    /\ status = FT4222_OK
    /\ flash \in F
    /\ wel \in W
    /\ busyLeft \in B
    /\ cs = NoCommand
    /\ i = 0 /\ attempts = 0 /\ errorCount = 0 /\ bufferPointer = 0
    /\ readBuffer = << >>
    /\ sectorIndex = 0 /\ sectorBuffer = << >> /\ pi = 0 /\ eraseIndex = 0
    /\ pageIndex = 0 /\ writeBuffer = << >>
    /\ vi = 0 /\ pointer = 0 /\ vReadBuffer = << >>
    /\ wi = 0 /\ sleeps = 0
    /\ lastCmd = "none" /\ prevCmd = "none"
    /\ awaiting = FALSE /\ pollCount = 0 /\ readySeen = FALSE /\ earlyCmd = FALSE
    /\ addrSector = -1 /\ sectorsSeen = {}
    /\ xfers = FALSE /\ firstError = "none" /\ xferAfterErr = FALSE
    /\ corrupted = FALSE
    /\ stuck = (busyLeft >= MAX_WAIT_TIME_MS)
    /\ progAttempts = 0 /\ mismatches = 0 /\ cleanReads = 0 /\ verified = {}
    /\ erasedAtStart = FALSE
    /\ readLog = << >> /\ erases = 0 /\ unbalanced = FALSE
    /\ flash0 = flash /\ calls = 0 /\ firstResult = "none"
    /\ ppLog = << >>
    /\ addrIn \in A /\ addrOut = << >>

Init == InitWith(InitFlashes, BOOLEAN, 0 .. MAX_WAIT_TIME_MS + 1, << >>, {0})

(***************************************************************************)
(* WriteSPI / ReadSPI.                                                     *)
(***************************************************************************)
WriteSPI(buf, bytesToWrite, isEndTransaction, out, busy) ==
    \E frame \in WireBytes(buf, bytesToWrite) :
        Transmit(frame, isEndTransaction, out, busy)

ReadSPI(bytesToRead, isEndTransaction, out, c) ==
    Receive(bytesToRead, isEndTransaction, out, c)

\* The data ReadSPI leaves in the caller's buffer.
ReadData(bytesToRead, c) == Corrupt(ChipData(bytesToRead), c)

BusyChoices(out) == IF out = "ok" THEN 0 .. MAX_WAIT_TIME_MS + 1 ELSE {0}
CorruptChoices(out, n) == IF out = "ok" THEN 0 .. n ELSE {0}

(***************************************************************************)
(* WaitForFlashReady.                                                      *)
(***************************************************************************)
\* Mutation: one poll too many.
PollsLeftInclusive(w) == w <= MAX_WAIT_TIME_MS

\* for (int i = 0; i < MAX_WAIT_TIME_MS; i++)
PollsLeft(w) == w < MAX_WAIT_TIME_MS

WaitLoop ==
    /\ Top = "wait_loop"
    /\ IF PollsLeft(wi)
       THEN /\ Goto("wait_hdr")
            /\ UNCHANGED << status, firstError >>
       ELSE /\ Return(FT4222_TIME_OUT_ERROR)
            /\ firstError' = IF firstError = "none" THEN FT4222_TIME_OUT_ERROR
                             ELSE firstError
    /\ UNCHANGED << argVars, chipVars, pfVars, spVars, ppVars, vfVars, wVars, histVars,
                    lastCmd, prevCmd, awaiting, pollCount, readySeen, earlyCmd,
                    addrSector, sectorsSeen, xfers, xferAfterErr, corrupted, stuck,
                    readLog, unbalanced, erases >>

WaitWriteStatusCmd ==
    /\ Top = "wait_hdr"
    /\ \E out \in DriverOutcomes :
          /\ WriteSPI(<< ReadStatusRegisterCmd >>, 1, FALSE, out, 0)
          /\ IF out = "ok"
             THEN Goto("wait_data") /\ status' = FT4222_OK
             ELSE Return(TransferStatus(out))
    /\ UNCHANGED << argVars, pfVars, spVars, ppVars, vfVars, wVars, histVars >>

\* Mutation: the status read leaves the transaction open.
StatusReadKeepsOpen == FALSE

\* ReadSPI(&readBuffer, 1, true)
StatusReadEnds == TRUE

\* The test of the status byte's busy bit.
IsReady(b) == (b % 2) = 0

WaitReadStatus ==
    /\ Top = "wait_data"
    /\ \E out \in DriverOutcomes :
          LET rb == ReadData(1, 0) IN
          /\ ReadSPI(1, StatusReadEnds, out, 0)
          /\ IF out # "ok"
             THEN Return(TransferStatus(out)) /\ UNCHANGED wVars
             ELSE IF IsReady(rb[1])
             THEN Return(FT4222_OK) /\ UNCHANGED wVars
             ELSE /\ sleeps' = sleeps + 1
                  /\ wi' = wi + 1
                  /\ Goto("wait_loop")
                  /\ status' = FT4222_OK
    /\ UNCHANGED << argVars, pfVars, spVars, ppVars, vfVars, histVars >>

(***************************************************************************)
(* WriteEnableFlash.                                                       *)
(***************************************************************************)
WriteEnableFlash ==
    /\ Top = "we_write"
    /\ \E out \in DriverOutcomes :
          /\ WriteSPI(<< WriteEnableCmd >>, 1, TRUE, out, 0)
          /\ Return(TransferStatus(out))
    /\ UNCHANGED << argVars, pfVars, spVars, ppVars, vfVars, wVars, histVars >>

\* Mutation: the returned status is not looked at.
CheckThenIgnoringStatus(label, next) ==
    /\ Top = label
    /\ Goto(next) /\ UNCHANGED status
    /\ UNCHANGED << argVars, chipVars, busVars, pfVars, spVars, ppVars, vfVars, wVars,
                    histVars >>

\* "status = F(); if (status != FT4222_OK) return status;" then continue at next.
CheckThen(label, next) ==
    /\ Top = label
    /\ IF status # FT4222_OK THEN Return(status)
       ELSE Goto(next) /\ UNCHANGED status
    /\ UNCHANGED << argVars, chipVars, busVars, pfVars, spVars, ppVars, vfVars, wVars,
                    histVars >>

\* "status = F(); if (status != FT4222_OK) return status; return status;"
ReturnStatus(label) ==
    /\ Top = label
    /\ Return(status)
    /\ UNCHANGED << argVars, chipVars, busVars, pfVars, spVars, ppVars, vfVars, wVars,
                    histVars >>

\* Mutation: the wait for the chip is left out.
SkipWait(cont) == Goto(cont) /\ wi' = 0 /\ sleeps' = 0

\* Enter WaitForFlashReady, continuing at cont.
CallWait(cont) == Call("wait_loop", cont) /\ wi' = 0 /\ sleeps' = 0

(***************************************************************************)
(* EraseFlash.                                                             *)
(***************************************************************************)
EraseFlashAfterWriteEnable == CheckThen("ef_we_ret", "ef_cmd")

EraseFlashCmd ==
    /\ Top = "ef_cmd"
    /\ \E out \in DriverOutcomes : \E busy \in BusyChoices(out) :
          /\ WriteSPI(<< ChipEraseCmd >>, 1, TRUE, out, busy)
          /\ IF out = "ok"
             THEN CallWait("ef_wait_ret") /\ status' = FT4222_OK
             ELSE Return(TransferStatus(out)) /\ UNCHANGED wVars
    /\ UNCHANGED << argVars, pfVars, spVars, ppVars, vfVars, histVars >>

EraseFlashAfterWait == ReturnStatus("ef_wait_ret")

(***************************************************************************)
(* EraseSector.                                                            *)
(***************************************************************************)
EraseSectorAfterWriteEnable == CheckThen("es_we_ret", "es_cmd")

EraseSectorCmd ==
    /\ Top = "es_cmd"
    /\ \E out \in DriverOutcomes : \E busy \in BusyChoices(out) :
          /\ WriteSPI(<< SectorEraseCmd >> \o IntToByteVec(eraseIndex * FLASH_SECTOR_SIZE),
                      4, TRUE, out, busy)
          /\ IF out = "ok"
             THEN CallWait("es_wait_ret") /\ status' = FT4222_OK
             ELSE Return(TransferStatus(out)) /\ UNCHANGED wVars
    /\ UNCHANGED << argVars, pfVars, spVars, ppVars, vfVars, histVars >>

EraseSectorAfterWait == ReturnStatus("es_wait_ret")

\* Enter EraseSector, which starts with WriteEnableFlash, continuing at cont.
CallEraseSector(cont) == pc' = << "we_write", "es_we_ret", cont >> \o Tail(pc)

(***************************************************************************)
(* PageProgramFlash.                                                       *)
(***************************************************************************)
PageProgramAfterWriteEnable == CheckThen("pp_we_ret", "pp_hdr")

PageProgramHeader ==
    /\ Top = "pp_hdr"
    /\ \E out \in DriverOutcomes :
          /\ WriteSPI(<< PageProgramCmd >> \o IntToByteVec(pageIndex * FLASH_PAGE_SIZE),
                      4, FALSE, out, 0)
          /\ IF out = "ok"
             THEN Goto("pp_data") /\ status' = FT4222_OK
             ELSE Return(TransferStatus(out))
    /\ UNCHANGED << argVars, pfVars, spVars, ppVars, vfVars, wVars, histVars >>

\* Bytes PageProgramFlash asks WriteSPI to send from writeBuffer.
PagePayloadLength == FLASH_PAGE_SIZE

PageProgramData ==
    /\ Top = "pp_data"
    /\ \E out \in DriverOutcomes : \E busy \in BusyChoices(out) :
          /\ WriteSPI(writeBuffer, PagePayloadLength, TRUE, out, busy)
          /\ IF out = "ok"
             THEN CallWait("pp_wait_ret") /\ status' = FT4222_OK
             ELSE Return(TransferStatus(out)) /\ UNCHANGED wVars
    /\ UNCHANGED << argVars, pfVars, spVars, ppVars, vfVars, histVars >>

PageProgramAfterWait == ReturnStatus("pp_wait_ret")

\* Mutation: PageProgramFlash without its WriteEnableFlash.
CallPageProgramNoWriteEnable(cont) == pc' = << "pp_hdr", cont >> \o Tail(pc)

\* Enter PageProgramFlash, which starts with WriteEnableFlash, continuing at cont.
CallPageProgram(cont) == pc' = << "we_write", "pp_we_ret", cont >> \o Tail(pc)

(***************************************************************************)
(* SectorProgramFlash.                                                     *)
(***************************************************************************)
PageCount(buf) ==
    IF Len(buf) < FLASH_SECTOR_SIZE
    THEN 1 + CDiv(Len(buf) - 1, FLASH_PAGE_SIZE)
    ELSE FLASH_SECTOR_SIZE \div FLASH_PAGE_SIZE

\* Mutation: the sector's byte address taken for its first page index.
PageStartIndexAsByteAddress(sector) == sector * FLASH_SECTOR_SIZE

PageStartIndex(sector) == sector * (FLASH_SECTOR_SIZE \div FLASH_PAGE_SIZE)

\* The bytes of page k of the sector buffer.
PageBuffer(buf, k) ==
    Slice(buf, k * FLASH_PAGE_SIZE,
          IF k = PageCount(buf) - 1 THEN Len(buf) ELSE (k + 1) * FLASH_PAGE_SIZE)

\* Enter SectorProgramFlash(sector, buf), continuing at cont.
CallSectorProgram(sector, buf, cont) ==
    /\ Call("sp_loop", cont)
    /\ sectorIndex' = sector
    /\ sectorBuffer' = buf
    /\ pi' = 0
    /\ status' = FT4222_OK

SectorProgramLoop ==
    /\ Top = "sp_loop"
    /\ IF pi < PageCount(sectorBuffer)
       THEN /\ pageIndex' = PageStartIndex(sectorIndex) + pi
            /\ writeBuffer' = PageBuffer(sectorBuffer, pi)
            /\ CallPageProgram("sp_pp_ret")
            /\ ppLog' = IF op = "SectorProgramFlash"
                        THEN Append(ppLog, [page |-> PageStartIndex(sectorIndex) + pi,
                                            data |-> PageBuffer(sectorBuffer, pi)])
                        ELSE ppLog
            /\ UNCHANGED status
       ELSE /\ Return(status)
            /\ UNCHANGED << ppVars, ppLog >>
    /\ UNCHANGED << argVars, chipVars, busVars, pfVars, spVars, vfVars, wVars,
                    progAttempts, mismatches, cleanReads, verified, erasedAtStart,
                    callVars, addrVars >>

SectorProgramAfterPage ==
    /\ Top = "sp_pp_ret"
    /\ IF status # FT4222_OK
       THEN Return(status) /\ UNCHANGED pi
       ELSE Goto("sp_loop") /\ pi' = pi + 1 /\ UNCHANGED status
    /\ UNCHANGED << argVars, chipVars, busVars, pfVars, sectorIndex, sectorBuffer,
                    eraseIndex, ppVars, vfVars, wVars, histVars >>

(***************************************************************************)
(* ReadSectorFlash (called for sector i of ProgramFlash).                  *)
(***************************************************************************)
ReadSectorHeader ==
    /\ Top = "rs_hdr"
    /\ \E out \in DriverOutcomes :
          /\ WriteSPI(<< ReadCmd >> \o IntToByteVec(i * FLASH_SECTOR_SIZE), 4, FALSE, out, 0)
          /\ IF out = "ok"
             THEN Goto("rs_data") /\ status' = FT4222_OK
             ELSE Return(TransferStatus(out))
    /\ UNCHANGED << argVars, pfVars, spVars, ppVars, vfVars, wVars, histVars >>

\* The image bytes that belong to sector s.
WindowLength(s) == Min(FLASH_SECTOR_SIZE, Len(fileBuffer) - s * FLASH_SECTOR_SIZE)
MatchesImage(data, s) ==
    \A j \in 1 .. WindowLength(s) : data[j] = fileBuffer[s * FLASH_SECTOR_SIZE + j]

ReadSectorData ==
    /\ Top = "rs_data"
    /\ \E out \in DriverOutcomes : \E c \in CorruptChoices(out, FLASH_SECTOR_SIZE) :
          LET data == ReadData(FLASH_SECTOR_SIZE, c)
              s == SectorOf(cs.addr)
          IN /\ ReadSPI(FLASH_SECTOR_SIZE, TRUE, out, c)
             /\ Return(TransferStatus(out))
             /\ readBuffer' = IF out = "ok" THEN data ELSE readBuffer
             /\ IF out = "ok"
                THEN IF MatchesImage(data, s)
                     THEN /\ cleanReads' = cleanReads + 1
                          /\ verified' = verified \cup {s}
                          /\ UNCHANGED mismatches
                     ELSE /\ mismatches' = mismatches + 1
                          /\ UNCHANGED << cleanReads, verified >>
                ELSE UNCHANGED << cleanReads, verified, mismatches >>
    /\ UNCHANGED << argVars, i, attempts, errorCount, bufferPointer, spVars, ppVars,
                    vfVars, wVars, progAttempts, erasedAtStart, sessVars >>

(***************************************************************************)
(* ProgramFlash.                                                           *)
(***************************************************************************)
\* Mutation: one sector more whenever the image fills its last sector.
SectorCountFloorPlusOne(size) == 1 + (size \div FLASH_SECTOR_SIZE)

\* size_t sectorCount = 1 + ((fileBuffer.size() - 1) / FLASH_SECTOR_SIZE)
SectorCount(size) == 1 + (((size - 1) % SizeTMod) \div FLASH_SECTOR_SIZE)

BytesToTransmit ==
    IF i = SectorCount(Len(fileBuffer)) - 1
    THEN Len(fileBuffer) - i * FLASH_SECTOR_SIZE
    ELSE FLASH_SECTOR_SIZE

\* Offsets [first, last) of fileBuffer copied into sectorBuffer.
SectorFirst == bufferPointer
SectorLast ==
    IF i = SectorCount(Len(fileBuffer)) - 1 THEN Len(fileBuffer)
    ELSE bufferPointer + FLASH_SECTOR_SIZE

ProgramFlashLoop ==
    /\ Top = "pf_loop"
    /\ IF i < SectorCount(Len(fileBuffer))
       THEN /\ Goto("pf_while")
            /\ attempts' = 0
            /\ progAttempts' = 0 /\ mismatches' = 0 /\ cleanReads' = 0 /\ erases' = 0
            /\ UNCHANGED status
       ELSE /\ Return(status)
            /\ UNCHANGED << attempts, progAttempts, mismatches, cleanReads, erases >>
    /\ UNCHANGED << argVars, chipVars, busCore, i, errorCount, bufferPointer, readBuffer,
                    spVars, ppVars, vfVars, wVars, verified, erasedAtStart, sessVars >>

\* Start of an attempt: copy the sector out of fileBuffer and program it.  A range
\* that leaves fileBuffer is undefined: the copy faults or yields foreign bytes.
ProgramFlashAttempt ==
    /\ Top = "pf_while"
    /\ i < NumSectors
    /\ errorCount' = 0
    /\ progAttempts' = progAttempts + 1
    /\ IF SectorFirst <= SectorLast /\ SectorLast <= Len(fileBuffer)
       THEN CallSectorProgram(i, Slice(fileBuffer, SectorFirst, SectorLast), "pf_sp_ret")
       ELSE \/ /\ pc' = << "crashed" >>
               /\ status' = "crashed"
               /\ UNCHANGED << sectorIndex, sectorBuffer, pi >>
            \/ \E g \in Garbage(FLASH_SECTOR_SIZE) :
                  CallSectorProgram(i, g, "pf_sp_ret")
    /\ UNCHANGED << argVars, chipVars, busVars, i, attempts, bufferPointer, readBuffer,
                    eraseIndex, ppVars, vfVars, wVars, mismatches, cleanReads, verified,
                    erasedAtStart, sessVars >>

ProgramFlashAfterSectorProgram == CheckThen("pf_sp_ret", "rs_hdr_call")

ProgramFlashReadBack ==
    /\ Top = "rs_hdr_call"
    /\ Call("rs_hdr", "pf_rs_ret")
    /\ UNCHANGED << argVars, status, chipVars, busVars, pfVars, spVars, ppVars, vfVars,
                    wVars, histVars >>

\* for (j < bytesToTransmit) if (readBuffer[j] != sectorBuffer[j]) errorCount++
CountErrors(rd, sb, n) == Cardinality({ j \in 1 .. n : rd[j] # sb[j] })

\* Mutation: a single mismatching byte is let through without an erase.
MustEraseMany(n) == n > 1

\* if (errorCount > 0) EraseSector(i)
MustErase(n) == n > 0

ProgramFlashCompare ==
    /\ Top = "pf_rs_ret"
    /\ IF status # FT4222_OK
       THEN /\ Return(status)
            /\ UNCHANGED << errorCount, readBuffer, eraseIndex >>
       ELSE LET n == CountErrors(readBuffer, sectorBuffer, BytesToTransmit) IN
            /\ errorCount' = errorCount + n
            /\ readBuffer' = << >>
            /\ UNCHANGED status
            /\ IF MustErase(errorCount + n)
               THEN /\ CallEraseSector("pf_es_ret")
                    /\ eraseIndex' = i
               ELSE /\ Goto("pf_after")
                    /\ UNCHANGED eraseIndex
    /\ UNCHANGED << argVars, chipVars, busVars, i, attempts, bufferPointer, sectorIndex,
                    sectorBuffer, pi, ppVars, vfVars, wVars, histVars >>

ProgramFlashAfterErase == CheckThen("pf_es_ret", "pf_after")

\* Mutation: the attempts never run out.
AttemptsExhaustedNever(n) == n < 0

\* Mutation: one attempt more before giving up.
AttemptsExhaustedLate(n) == n = MAX_SECTOR_PROGRAM_ATTEMPTS + 1

\* attempts++; if (attempts == MAX_SECTOR_PROGRAM_ATTEMPTS) return CORRUPTED
AttemptsExhausted(n) == n = MAX_SECTOR_PROGRAM_ATTEMPTS

\* Mutation: a sector counts as done whatever its read-back showed.
SuccessAlways(n) == n >= 0

\* success = errorCount == 0
Success(n) == n = 0

ProgramFlashAfterAttempt ==
    /\ Top = "pf_after"
    /\ attempts' = attempts + 1
    /\ IF AttemptsExhausted(attempts + 1)
       THEN /\ Return(FT4222_CORRUPTED_UPLOAD)
            /\ UNCHANGED << i, bufferPointer >>
       ELSE IF ~Success(errorCount)
       THEN /\ Goto("pf_while")
            /\ UNCHANGED << status, i, bufferPointer >>
       ELSE /\ Goto("pf_loop")
            /\ bufferPointer' = bufferPointer + FLASH_SECTOR_SIZE
            /\ i' = i + 1
            /\ UNCHANGED status
    /\ UNCHANGED << argVars, chipVars, busVars, errorCount, readBuffer, spVars, ppVars,
                    vfVars, wVars, histVars >>

(***************************************************************************)
(* ValidateFlash.                                                          *)
(***************************************************************************)
ChunkCount(size) == 1 + CDiv(size - 1, MAX_READ_SIZE)

\* Mutation: the last chunk asks for a full chunk as well.
BytesToReadAlwaysFull == MAX_READ_SIZE

\* bytesToRead = i == n - 1 ? size - i * MAX_READ_SIZE : MAX_READ_SIZE
BytesToRead ==
    IF vi = ChunkCount(Len(fileBuffer)) - 1
    THEN Len(fileBuffer) - vi * MAX_READ_SIZE
    ELSE MAX_READ_SIZE

\* Mutation: the comparison stops one byte short of the image.
DiffersButLast(rd, image) == \E j \in 1 .. Len(image) - 1 : rd[j] # image[j]

\* for (i < fileBuffer.size()) if (readBuffer[i] != fileBuffer[i]) return CORRUPTED
Differs(rd, image) == \E j \in 1 .. Len(image) : rd[j] # image[j]

ValidateLoop ==
    /\ Top = "vf_loop"
    /\ IF vi < ChunkCount(Len(fileBuffer))
       THEN Goto("vf_hdr") /\ UNCHANGED status
       ELSE IF Differs(vReadBuffer, fileBuffer)
            THEN Return(FT4222_CORRUPTED_UPLOAD)
            ELSE Return(status)
    /\ UNCHANGED << argVars, chipVars, busVars, pfVars, spVars, ppVars, vfVars, wVars,
                    histVars >>

ValidateHeader ==
    /\ Top = "vf_hdr"
    /\ \E out \in DriverOutcomes :
          /\ WriteSPI(<< ReadCmd >> \o IntToByteVec(pointer), 4, FALSE, out, 0)
          /\ IF out = "ok"
             THEN Goto("vf_data") /\ status' = FT4222_OK
             ELSE Return(TransferStatus(out))
    /\ UNCHANGED << argVars, pfVars, spVars, ppVars, vfVars, wVars, histVars >>

ValidateData ==
    /\ Top = "vf_data"
    /\ \E out \in DriverOutcomes : \E c \in CorruptChoices(out, BytesToRead) :
          LET tempBuffer == ReadData(BytesToRead, c) IN
          /\ ReadSPI(BytesToRead, TRUE, out, c)
          /\ IF out # "ok"
             THEN Return(TransferStatus(out)) /\ UNCHANGED vfVars
             ELSE /\ vReadBuffer' =
                       [j \in 1 .. Len(vReadBuffer) |->
                          IF pointer < j /\ j <= pointer + BytesToRead
                          THEN tempBuffer[j - pointer] ELSE vReadBuffer[j]]
                  /\ pointer' = pointer + MAX_READ_SIZE
                  /\ vi' = vi + 1
                  /\ Goto("vf_loop")
                  /\ status' = FT4222_OK
    /\ UNCHANGED << argVars, pfVars, spVars, ppVars, wVars, histVars >>

(***************************************************************************)
(* The caller.                                                             *)
(***************************************************************************)
Invoke(name, buf) ==
    /\ Top = "idle"
    /\ op' = name
    /\ fileBuffer' = buf
    /\ UNCHANGED << chipVars, busVars, readBuffer, ppVars, progAttempts, mismatches,
                    cleanReads, verified >>

\* Entry of ProgramFlash(image): its locals as declared.
ProgramFlashEntry(image) ==
       /\ Invoke("ProgramFlash", image)
       /\ pc' = << "pf_loop", "done" >>
       /\ status' = FT4222_OK
       /\ i' = 0 /\ attempts' = 0 /\ errorCount' = 0 /\ bufferPointer' = 0
       /\ erasedAtStart' = (flash = ErasedFlash /\ busyLeft = 0)
       /\ UNCHANGED << spVars, vfVars, wVars, sessVars >>

InvokeProgramFlash == \E image \in Images \cup { << >> } : ProgramFlashEntry(image)

InvokeSectorProgramFlash ==
    \E sector \in 0 .. NumSectors - 1 :
    \E buf \in { Image(0, len) : len \in 0 .. FLASH_SECTOR_SIZE + 1 } :
       /\ Invoke("SectorProgramFlash", buf)
       /\ CallSectorProgram(sector, buf, "done")
       /\ UNCHANGED << i, attempts, errorCount, bufferPointer, eraseIndex, vfVars, wVars,
                       erasedAtStart, sessVars >>

InvokeEraseSector ==
    \E sector \in 0 .. NumSectors - 1 :
       /\ Invoke("EraseSector", << >>)
       /\ eraseIndex' = sector
       /\ CallEraseSector("done")
       /\ UNCHANGED << status, i, attempts, errorCount, bufferPointer, sectorIndex,
                       sectorBuffer, pi, vfVars, wVars, erasedAtStart, sessVars >>

InvokeEraseFlash ==
    /\ Invoke("EraseFlash", << >>)
    /\ pc' = << "we_write", "ef_we_ret", "done" >>
    /\ UNCHANGED << status, i, attempts, errorCount, bufferPointer, spVars, vfVars, wVars,
                    erasedAtStart, sessVars >>

\* Mutation: the read pointer survives from the previous call.
PointerKept == pointer

\* int pointer = 0
PointerAtEntry == 0

\* Entry of ValidateFlash(image): its locals as declared.
ValidateEntry(image) ==
    /\ pc' = << "vf_loop", "done" >>
    /\ status' = FT4222_OK
    /\ vReadBuffer' = [j \in 1 .. Len(image) |-> 0]
    /\ pointer' = PointerAtEntry
    /\ vi' = 0
    /\ calls' = calls + 1
    /\ UNCHANGED << i, attempts, errorCount, bufferPointer, spVars, wVars, erasedAtStart,
                    flash0, ppLog, addrVars >>

InvokeValidateFlash ==
    \E image \in Images :
       /\ Invoke("ValidateFlash", image)
       /\ ValidateEntry(image)
       /\ UNCHANGED firstResult

InvokeWaitForFlashReady ==
    /\ Invoke("WaitForFlashReady", << >>)
    /\ pc' = << "wait_loop", "done" >>
    /\ wi' = 0 /\ sleeps' = 0
    /\ UNCHANGED << status, i, attempts, errorCount, bufferPointer, spVars, vfVars,
                    erasedAtStart, sessVars >>

Next ==
    \/ InvokeProgramFlash
    \/ InvokeSectorProgramFlash
    \/ InvokeEraseSector
    \/ InvokeEraseFlash
    \/ InvokeValidateFlash
    \/ InvokeWaitForFlashReady
    \/ WaitLoop
    \/ WaitWriteStatusCmd
    \/ WaitReadStatus
    \/ WriteEnableFlash
    \/ EraseFlashAfterWriteEnable
    \/ EraseFlashCmd
    \/ EraseFlashAfterWait
    \/ EraseSectorAfterWriteEnable
    \/ EraseSectorCmd
    \/ EraseSectorAfterWait
    \/ PageProgramAfterWriteEnable
    \/ PageProgramHeader
    \/ PageProgramData
    \/ PageProgramAfterWait
    \/ SectorProgramLoop
    \/ SectorProgramAfterPage
    \/ ReadSectorHeader
    \/ ReadSectorData
    \/ ProgramFlashLoop
    \/ ProgramFlashAttempt
    \/ ProgramFlashAfterSectorProgram
    \/ ProgramFlashReadBack
    \/ ProgramFlashCompare
    \/ ProgramFlashAfterErase
    \/ ProgramFlashAfterAttempt
    \/ ValidateLoop
    \/ ValidateHeader
    \/ ValidateData

Spec == Init /\ [][Next]_vars

(***************************************************************************)
(* Programming runs: ProgramFlash of a non-empty image, run to its end.    *)
(* The host keeps executing the function it called: none of the steps      *)
(* blocks, the driver calls return and Sleep(1) ends.                      *)
(***************************************************************************)
InvokeProgramFlashNonEmpty ==
    \E len \in 1 .. FlashCapacity : ProgramFlashEntry(Image(0, len))

NextProgram ==
    \/ InvokeProgramFlashNonEmpty
    \/ WaitLoop
    \/ WaitWriteStatusCmd
    \/ WaitReadStatus
    \/ WriteEnableFlash
    \/ EraseSectorAfterWriteEnable
    \/ EraseSectorCmd
    \/ EraseSectorAfterWait
    \/ PageProgramAfterWriteEnable
    \/ PageProgramHeader
    \/ PageProgramData
    \/ PageProgramAfterWait
    \/ SectorProgramLoop
    \/ SectorProgramAfterPage
    \/ ReadSectorHeader
    \/ ReadSectorData
    \/ ProgramFlashLoop
    \/ ProgramFlashAttempt
    \/ ProgramFlashAfterSectorProgram
    \/ ProgramFlashReadBack
    \/ ProgramFlashCompare
    \/ ProgramFlashAfterErase
    \/ ProgramFlashAfterAttempt

FairProgram == Init /\ [][NextProgram]_vars /\ WF_vars(NextProgram)

(***************************************************************************)
(* Address frames: the command-and-address buffer the functions build for  *)
(* an address, over addresses on both sides of every byte boundary and of  *)
(* the 24-bit range.                                                       *)
(***************************************************************************)
AddressInputs ==
    { (h * 16777216) + (b2 * 65536) + (b1 * 256) + b0 :
         h \in {0, 1, 127}, b2 \in {0, 1, 255}, b1 \in {0, 128, 255},
         b0 \in {0, 1, 254, 255} }

AddressedCmds == {PageProgramCmd, SectorEraseCmd, ReadCmd}

InitAddress == InitWith({ErasedFlash}, {FALSE}, {0}, << >>, AddressInputs)

\* writeBuffer = IntToByteVec(address); writeBuffer.insert(begin, cmd)
BuildAddressFrame ==
    /\ addrOut = << >>
    /\ \E cmd \in AddressedCmds : addrOut' = << cmd >> \o IntToByteVec(addrIn)
    /\ UNCHANGED << argVars, pc, status, chipVars, busVars, pfVars, spVars, ppVars,
                    vfVars, wVars, progAttempts, mismatches, cleanReads, verified,
                    erasedAtStart, callVars, ppLog, addrIn >>

NextAddress == BuildAddressFrame

SpecAddress == InitAddress /\ [][NextAddress]_vars

(***************************************************************************)
(* Validation sessions: the caller holds an image, the chip holds what a   *)
(* programming of that image left, and ValidateFlash runs once or twice.   *)
(***************************************************************************)
\* The chip after image was programmed into erased flash.
ProgrammedFlash(image) ==
    [a \in 0 .. FlashCapacity - 1 |-> IF a < Len(image) THEN image[a + 1] ELSE ErasedByte]

\* The same with the byte at address d holding another value.
Deviate(f, d) == [a \in DOMAIN f |-> IF a = d THEN (f[a] + 1) % 4 ELSE f[a]]

ValidateFlashes(image) ==
    { ProgrammedFlash(image) }
        \cup { Deviate(ProgrammedFlash(image), d) : d \in 0 .. FlashCapacity - 1 }

InitValidate == \E image \in Images : InitWith(ValidateFlashes(image), {FALSE}, {0}, image, {0})

ValidateLoaded ==
    /\ Invoke("ValidateFlash", fileBuffer)
    /\ ValidateEntry(fileBuffer)
    /\ UNCHANGED firstResult

\* A second ValidateFlash(fileBuffer) after the first one returned.
ValidateAgain ==
    /\ Top = "done" /\ op = "ValidateFlash" /\ calls = 1 /\ firstError = "none"
    /\ ValidateEntry(fileBuffer)
    /\ firstResult' = status
    /\ readLog' = << >>
    /\ UNCHANGED << argVars, chipVars, lastCmd, prevCmd, awaiting, pollCount, readySeen,
                    earlyCmd, addrSector, sectorsSeen, xfers, firstError, xferAfterErr,
                    corrupted, stuck, unbalanced, erases, readBuffer, ppVars,
                    progAttempts, mismatches, cleanReads, verified >>

NextValidate ==
    \/ ValidateLoaded
    \/ ValidateAgain
    \/ ValidateLoop
    \/ ValidateHeader
    \/ ValidateData

SpecValidate == InitValidate /\ [][NextValidate]_vars

Done == Top = "done"

(***************************************************************************)
(* Properties.                                                             *)
(***************************************************************************)
TransportErrors == {FT4222_DEVICE_NOT_OPENED, FT4222_INORRECT_TRANSFER_SIZE}

\* No transfer failed, no read was altered, the chip never outlasted a poll budget.
FaultFree == firstError \notin TransportErrors /\ ~corrupted /\ ~stuck

FlashHoldsImage == \A j \in 1 .. Len(fileBuffer) : flash[j - 1] = fileBuffer[j]

\* C1: ProgramFlash of a non-empty image that fits the chip, started on an erased
\* idle chip and run over a fault-free transport, returns FT4222_OK and leaves the
\* image, byte for byte, at flash addresses [0, len).
ProgramWritesImage ==
    (op = "ProgramFlash" /\ Done /\ Len(fileBuffer) > 0 /\ erasedAtStart /\ FaultFree)
        => (status = FT4222_OK /\ FlashHoldsImage)

ProgramWritesImage_Witness ==
    /\ op = "ProgramFlash" /\ Done /\ erasedAtStart /\ FaultFree
    /\ Len(fileBuffer) = FlashCapacity - 1
    /\ status = FT4222_OK /\ FlashHoldsImage

\* C2: ProgramFlash returns FT4222_CORRUPTED_UPLOAD only when every one of the
\* MAX_SECTOR_PROGRAM_ATTEMPTS attempts on the sector ended with a mismatch; an attempt
\* whose read-back matched makes the sector succeed.
CorruptedOnlyAfterAllMismatch ==
    (op = "ProgramFlash" /\ Done /\ Len(fileBuffer) > 0 /\ status = FT4222_CORRUPTED_UPLOAD)
        => (cleanReads = 0 /\ mismatches = MAX_SECTOR_PROGRAM_ATTEMPTS)

\* C3: with every read-back of sector k mismatching and no transport or timeout
\* error, ProgramFlash makes exactly MAX_SECTOR_PROGRAM_ATTEMPTS SectorProgramFlash
\* attempts on sector k, returns FT4222_CORRUPTED_UPLOAD, and addresses no sector
\* beyond k; it never makes more attempts than that on any sector.
RetryBound ==
    (op = "ProgramFlash" /\ Len(fileBuffer) > 0) =>
        /\ progAttempts <= MAX_SECTOR_PROGRAM_ATTEMPTS
        /\ (Done /\ firstError = "none" /\ cleanReads = 0 /\ mismatches > 0) =>
              /\ status = FT4222_CORRUPTED_UPLOAD
              /\ progAttempts = MAX_SECTOR_PROGRAM_ATTEMPTS
              /\ mismatches = MAX_SECTOR_PROGRAM_ATTEMPTS
              /\ \A s \in sectorsSeen : s <= i

RetryBound_Witness ==
    /\ op = "ProgramFlash" /\ Done /\ firstError = "none"
    /\ i = 1 /\ cleanReads = 0
    /\ mismatches = MAX_SECTOR_PROGRAM_ATTEMPTS
    /\ progAttempts = MAX_SECTOR_PROGRAM_ATTEMPTS
    /\ status = FT4222_CORRUPTED_UPLOAD
    /\ Len(fileBuffer) = FlashCapacity

\* C4: once a transfer has failed (or come up short) or WaitForFlashReady has timed
\* out, no further transport call is made and every function on the call stack
\* returns that same status.
ErrorsPropagate ==
    firstError # "none" => (~xferAfterErr /\ status = firstError)

ErrorsPropagate_Witness ==
    /\ op = "ProgramFlash" /\ Done
    /\ firstError = FT4222_INORRECT_TRANSFER_SIZE
    /\ status = FT4222_INORRECT_TRANSFER_SIZE
    /\ lastCmd = PageProgramCmd /\ i = 1 /\ pi = 1

\* C5: ProgramFlash of an empty image makes no transport call and returns
\* InvalidInput.
EmptyImageRejected ==
    (op = "ProgramFlash" /\ Len(fileBuffer) = 0) =>
        (~xfers /\ (Top \in {"done", "crashed"} => status = "InvalidInput"))

\* C6: SectorProgramFlash of a buffer longer than FLASH_SECTOR_SIZE makes no
\* transport call and returns InvalidInput.
OversizedSectorRejected ==
    (op = "SectorProgramFlash" /\ Len(fileBuffer) > FLASH_SECTOR_SIZE) =>
        (~xfers /\ (Done => status = "InvalidInput"))

\* C7: every PageProgram, SectorErase and ChipErase frame is directly preceded on
\* the bus by a WriteEnable frame.
WriteEnablePrecedes ==
    lastCmd \in {PageProgramCmd, SectorEraseCmd, ChipEraseCmd} => prevCmd = WriteEnableCmd

WriteEnablePrecedes_Witness ==
    /\ op = "ProgramFlash"
    /\ lastCmd = PageProgramCmd /\ prevCmd = WriteEnableCmd
    /\ mismatches > 0 /\ progAttempts = 2 /\ pi = 1

\* C8: after a PageProgram, SectorErase or ChipErase command only status polls are
\* sent until a status byte with bit 0 clear has been received.
OnlyPollsWhileBusy == ~earlyCmd

OnlyPollsWhileBusy_Witness ==
    /\ op = "ProgramFlash"
    /\ lastCmd = ReadCmd /\ prevCmd = ReadStatusRegisterCmd
    /\ sleeps > 0 /\ ~awaiting /\ ~earlyCmd

\* C9: ProgramFlash addresses sectors in ascending order, and addresses a sector
\* only after every lower sector was programmed and read back without mismatch.
SectorsInOrder ==
    /\ [](op = "ProgramFlash" =>
            \A s \in sectorsSeen : \A t \in 0 .. s - 1 : t \in sectorsSeen /\ t \in verified)
    /\ [][op = "ProgramFlash" => addrSector' >= addrSector]_vars

SectorsInOrder_Witness ==
    /\ op = "ProgramFlash" /\ Len(fileBuffer) > 0
    /\ sectorsSeen = 0 .. 1 /\ addrSector = 1
    /\ 0 \in verified /\ mismatches > 0 /\ lastCmd = SectorEraseCmd

\* C10: a WaitForFlashReady whose every status read shows the busy bit (and no
\* transfer fails) returns FT4222_TIME_OUT_ERROR, after exactly MAX_WAIT_TIME_MS
\* status reads, each followed by one sleep; no wait polls more often than that.
WaitReturned ==
    \/ Top \in {"pp_wait_ret", "es_wait_ret", "ef_wait_ret"}
    \/ (op = "WaitForFlashReady" /\ Done)

TimeoutAfterAllPolls ==
    /\ pollCount <= MAX_WAIT_TIME_MS
    /\ (WaitReturned /\ firstError \notin TransportErrors /\ ~readySeen) =>
          /\ status = FT4222_TIME_OUT_ERROR
          /\ pollCount = MAX_WAIT_TIME_MS
          /\ sleeps = MAX_WAIT_TIME_MS

TimeoutAfterAllPolls_Witness ==
    /\ op = "WaitForFlashReady" /\ Done
    /\ ~readySeen /\ firstError = FT4222_TIME_OUT_ERROR
    /\ status = FT4222_TIME_OUT_ERROR
    /\ pollCount = MAX_WAIT_TIME_MS /\ sleeps = MAX_WAIT_TIME_MS

\* C11: ValidateFlash reads the image length in ceil(len / MAX_READ_SIZE) Read commands:
\* the k-th (from 0) is addressed at k * MAX_READ_SIZE and receives MAX_READ_SIZE bytes,
\* the last only the remainder, and each chunk lands in the read-back buffer at its own
\* offset; a validation that meets no transport error has issued all of them.
CeilDiv(a, b) == (a + b - 1) \div b

ValidateChunks ==
    op = "ValidateFlash" =>
        LET len == Len(fileBuffer)
            n == CeilDiv(len, MAX_READ_SIZE)
        IN /\ Len(readLog) <= n
           /\ \A k \in 1 .. Len(readLog) :
                 /\ readLog[k].addr = (k - 1) * MAX_READ_SIZE
                 /\ readLog[k].n = Min(MAX_READ_SIZE, len - (k - 1) * MAX_READ_SIZE)
                 /\ Len(readLog[k].data) = readLog[k].n
                 /\ \A j \in 1 .. readLog[k].n :
                       vReadBuffer[(k - 1) * MAX_READ_SIZE + j] = readLog[k].data[j]
           /\ (Done /\ firstError = "none") => Len(readLog) = n

ValidateChunks_Witness ==
    /\ op = "ValidateFlash" /\ Done /\ firstError = "none"
    /\ Len(fileBuffer) = (2 * MAX_READ_SIZE) + 2
    /\ Len(readLog) = 3
    /\ readLog[3].addr = 2 * MAX_READ_SIZE
    /\ readLog[3].n = 2

\* C12: a ValidateFlash that meets no transport error returns FT4222_OK exactly when the
\* bytes the Read commands delivered equal the image, and FT4222_CORRUPTED_UPLOAD
\* otherwise; when the transport altered nothing these bytes are flash[0, len), so the
\* result is FT4222_OK iff the flash holds the image byte for byte.
DeliveredImage ==
    \A k \in 1 .. Len(readLog) : \A j \in 1 .. readLog[k].n :
        readLog[k].data[j] = fileBuffer[readLog[k].addr + j]

ValidateDecides ==
    (op = "ValidateFlash" /\ Done /\ firstError = "none") =>
        /\ status \in {FT4222_OK, FT4222_CORRUPTED_UPLOAD}
        /\ (status = FT4222_OK) <=> DeliveredImage
        /\ ~corrupted => ((status = FT4222_OK) <=> FlashHoldsImage)

ValidateDecides_Witness ==
    /\ op = "ValidateFlash" /\ Done /\ firstError = "none" /\ ~corrupted
    /\ Len(fileBuffer) = FlashCapacity
    /\ flash[FlashCapacity - 1] # fileBuffer[FlashCapacity]
    /\ \A a \in 0 .. FlashCapacity - 2 : flash[a] = fileBuffer[a + 1]
    /\ status = FT4222_CORRUPTED_UPLOAD

\* C13: ValidateFlash only reads: every command it puts on the bus is a Read, the flash
\* and the write-enable latch stay as they were, and a second call with the same image
\* over a transport that neither failed nor altered data returns what the first returned.
ValidateIdempotent ==
    op = "ValidateFlash" =>
        /\ lastCmd \in {"none", ReadCmd}
        /\ flash = flash0
        /\ wel = FALSE /\ busyLeft = 0
        /\ (calls = 2 /\ Done /\ firstError = "none" /\ ~corrupted)
               => status = firstResult

ValidateIdempotent_Witness ==
    /\ op = "ValidateFlash" /\ calls = 2 /\ Done /\ firstError = "none" /\ ~corrupted
    /\ Len(fileBuffer) > MAX_READ_SIZE
    /\ lastCmd = ReadCmd
    /\ status = FT4222_OK /\ firstResult = FT4222_OK

\* C14: ProgramFlash of an image whose length is no multiple of the page size writes
\* only the image: on a chip that started erased and idle, over a transport without
\* faults, every flash byte at an address >= len keeps the value it had or is erased.
OnlyImageBytesWritten ==
    (op = "ProgramFlash" /\ Len(fileBuffer) > 0 /\ erasedAtStart /\ FaultFree) =>
        \A a \in Len(fileBuffer) .. FlashCapacity - 1 : flash[a] \in {flash0[a], ErasedByte}

\* C15: SectorProgramFlash(sectorIndex, buffer) with len <= FLASH_SECTOR_SIZE makes
\* ceil(len / FLASH_PAGE_SIZE) PageProgramFlash calls in ascending order, the k-th (from
\* 0) for the page at sectorIndex * FLASH_SECTOR_SIZE + k * FLASH_PAGE_SIZE with the
\* buffer bytes [k * FLASH_PAGE_SIZE, min((k + 1) * FLASH_PAGE_SIZE, len)); a call that
\* meets no transport error has made all of them.
SectorProgramPages ==
    (op = "SectorProgramFlash" /\ Len(fileBuffer) <= FLASH_SECTOR_SIZE) =>
        LET len == Len(fileBuffer)
            n == CeilDiv(len, FLASH_PAGE_SIZE)
        IN /\ Len(ppLog) <= n
           /\ \A k \in 1 .. Len(ppLog) :
                 /\ ppLog[k].page * FLASH_PAGE_SIZE =
                        (sectorIndex * FLASH_SECTOR_SIZE) + ((k - 1) * FLASH_PAGE_SIZE)
                 /\ ppLog[k].data =
                        Slice(fileBuffer, (k - 1) * FLASH_PAGE_SIZE,
                              Min(k * FLASH_PAGE_SIZE, len))
           /\ (Done /\ firstError = "none") => Len(ppLog) = n

\* C16: ProgramFlash cuts a non-empty image into ceil(len / FLASH_SECTOR_SIZE) windows:
\* the sector buffer of sector i holds the image bytes from i * FLASH_SECTOR_SIZE on,
\* FLASH_SECTOR_SIZE of them except for the last window, which holds the rest; exactly
\* that many bytes of a read-back decide whether it counts as mismatching; a
\* programming that returns FT4222_OK has gone through all the windows.
InAttempt == progAttempts > 0 /\ Top \notin {"pf_loop", "done"}

ImageWindows ==
    (op = "ProgramFlash" /\ Len(fileBuffer) > 0) =>
        LET len == Len(fileBuffer)
            n == CeilDiv(len, FLASH_SECTOR_SIZE)
        IN /\ i <= n
           /\ InAttempt =>
                 /\ i < n
                 /\ bufferPointer = i * FLASH_SECTOR_SIZE
                 /\ Len(sectorBuffer) = IF i < n - 1 THEN FLASH_SECTOR_SIZE
                                        ELSE len - ((n - 1) * FLASH_SECTOR_SIZE)
                 /\ \A j \in 1 .. Len(sectorBuffer) :
                       sectorBuffer[j] = fileBuffer[(i * FLASH_SECTOR_SIZE) + j]
                 /\ BytesToTransmit = Len(sectorBuffer)
           /\ Top = "pf_after" => ((errorCount = 0) <=> (cleanReads = 1))
           /\ (Done /\ status = FT4222_OK) => i = n

ImageWindows_Witness ==
    /\ op = "ProgramFlash" /\ Done /\ status = FT4222_OK
    /\ Len(fileBuffer) = FLASH_SECTOR_SIZE + 1
    /\ i = 2
    /\ sectorBuffer = << fileBuffer[FLASH_SECTOR_SIZE + 1] >>
    /\ verified = {0, 1}

\* C17: an addressed frame is the opcode followed by exactly three address bytes, most
\* significant first: IntToByteVec(x) = [(x >> 16) & 0xFF, (x >> 8) & 0xFF, x & 0xFF]
\* for every non-negative x, which the chip reads back as x mod 2^24.
AddressBytes ==
    addrOut # << >> =>
        /\ Len(addrOut) = 4
        /\ addrOut[1] \in AddressedCmds
        /\ addrOut[2] = (addrIn \div 65536) % 256
        /\ addrOut[3] = (addrIn \div 256) % 256
        /\ addrOut[4] = addrIn % 256
        /\ DecodeAddress(SubSeq(addrOut, 2, 4)) = addrIn % 16777216

AddressBytes_Witness ==
    /\ addrIn = 16777216 + 65536 + (128 * 256) + 254
    /\ addrOut = << ReadCmd, 1, 128, 254 >>

\* C18: ProgramFlash sends SectorErase only for the sector it is programming and only
\* after a read-back of that sector mismatched, with nothing but the erase's own
\* WriteEnable in between: per sector the erases sent never exceed the mismatching
\* read-backs and trail them by at most the one being answered, they are equal when an
\* attempt ends, the final allowed one included, and when the call returns without a
\* transport error; a sector whose read-back matched is never erased.
ErasesFollowMismatches ==
    (op = "ProgramFlash" /\ Len(fileBuffer) > 0) =>
        /\ erases <= mismatches /\ mismatches <= erases + 1
        /\ lastCmd = SectorEraseCmd =>
              /\ addrSector = i
              /\ prevCmd = WriteEnableCmd
              /\ cleanReads = 0
              /\ addrSector \notin verified
        /\ Top = "pf_after" => erases = mismatches
        /\ (Done /\ firstError = "none") => erases = mismatches

ErasesFollowMismatches_Witness ==
    /\ op = "ProgramFlash" /\ Done /\ firstError = "none"
    /\ status = FT4222_CORRUPTED_UPLOAD
    /\ progAttempts = MAX_SECTOR_PROGRAM_ATTEMPTS
    /\ mismatches = MAX_SECTOR_PROGRAM_ATTEMPTS
    /\ erases = MAX_SECTOR_PROGRAM_ATTEMPTS
    /\ i = 1 /\ verified = {0}

\* C19: chip-select framing is balanced: a transfer that leaves the transaction open
\* (ReadStatus opcode, PageProgram header, Read header) is followed, as the next
\* transport call, by one transfer that completes the same command and closes it; a
\* transaction is open only while that completing call is due or after a transfer
\* failed; whenever a function returns success no transaction is open.
CompletingCall == {"wait_data", "pp_data", "rs_data", "vf_data"}

ReturnPoints ==
    {"done", "ef_we_ret", "ef_wait_ret", "es_we_ret", "es_wait_ret", "pp_we_ret",
     "pp_wait_ret", "sp_pp_ret", "pf_sp_ret", "pf_rs_ret", "pf_es_ret"}

FramingBalanced ==
    /\ ~unbalanced
    /\ cs.op # "none" => (Top \in CompletingCall \/ firstError # "none")
    /\ (cs.op # "none" /\ Top \in CompletingCall) =>
           cs.op = CASE Top = "wait_data" -> ReadStatusRegisterCmd
                     [] Top = "pp_data" -> PageProgramCmd
                     [] OTHER -> ReadCmd
    /\ (Top \in ReturnPoints /\ status = FT4222_OK) => cs = NoCommand

FramingBalanced_Witness ==
    /\ op = "ProgramFlash" /\ Done /\ status = FT4222_OK
    /\ Len(fileBuffer) > FLASH_SECTOR_SIZE
    /\ lastCmd = ReadCmd /\ prevCmd = ReadStatusRegisterCmd
    /\ xfers /\ cs = NoCommand /\ ~unbalanced

\* C20: ProgramFlash of a non-empty image returns, whatever the transport and the chip
\* do: each sector gets at most MAX_SECTOR_PROGRAM_ATTEMPTS SectorProgramFlash calls and
\* the sectors are visited once each, so at most
\* ceil(len / FLASH_SECTOR_SIZE) * MAX_SECTOR_PROGRAM_ATTEMPTS in all, and no wait reads
\* the status more than MAX_WAIT_TIME_MS times.
AttemptBudget ==
    (op = "ProgramFlash" /\ Len(fileBuffer) > 0) =>
        LET n == CeilDiv(Len(fileBuffer), FLASH_SECTOR_SIZE) IN
        /\ progAttempts <= MAX_SECTOR_PROGRAM_ATTEMPTS
        /\ attempts <= MAX_SECTOR_PROGRAM_ATTEMPTS
        /\ InAttempt => (i * MAX_SECTOR_PROGRAM_ATTEMPTS) + progAttempts
                           <= n * MAX_SECTOR_PROGRAM_ATTEMPTS
        /\ pollCount <= MAX_WAIT_TIME_MS
        /\ wi <= MAX_WAIT_TIME_MS

ProgramFlashReturns ==
    /\ []AttemptBudget
    /\ (op = "ProgramFlash" /\ Len(fileBuffer) > 0) ~> Done

ProgramFlashReturns_Witness ==
    /\ op = "ProgramFlash" /\ Done
    /\ Len(fileBuffer) = FlashCapacity
    /\ i = NumSectors - 1
    /\ progAttempts = MAX_SECTOR_PROGRAM_ATTEMPTS
    /\ status = FT4222_CORRUPTED_UPLOAD
    /\ corrupted /\ pollCount = MAX_WAIT_TIME_MS

====
